---- MODULE Spec2Model ----
(***************************************************************************)
(* Model of the nautobot developer task runner (tasks.py) and of the       *)
(* Tenancy navigation registration (nautobot/tenancy/navigation.py).       *)
(*                                                                         *)
(* One behaviour is one run of the task runner: the modules are imported   *)
(* (Init), one task is dispatched, and the task's body is executed one     *)
(* statement group at a time.  Every call the task makes to the outside    *)
(* world (context.run, session.get, sleep) is appended to `log`.           *)
(***************************************************************************)
EXTENDS Integers, Sequences, FiniteSets, TLC

VARIABLES
    pc,              \* position of the interpreter inside the running task
    task,            \* name of the dispatched task ("" before dispatch)
    user,            \* createsuperuser: value of the `user` parameter
    compose_command, \* module-level COMPOSE_COMMAND, fixed at import
    retries,         \* integration_tests: local `retries`
    request,         \* integration_tests: status_code of local `request` (0 = unbound)
    exit,            \* exception the task ended with (NoExit if none)
    log,             \* sequence of external calls made so far
    menu_items,      \* tenancy navigation tree, built at import
    server           \* environment: the probed endpoint

vars == <<pc, task, user, compose_command, retries, request, exit, log,
          menu_items, server>>

-----------------------------------------------------------------------------
(* Bounds of the model *)

\* The endpoint refuses connections for 0..MaxDown probes before it answers.
MaxDown == 61

\* Exit statuses of invoked processes range over 0..MaxExitCode.
MaxExitCode == 2

\* Status codes the endpoint may answer with once it accepts connections.
StatusCodes == {200, 403, 404, 500, 503}

\* Names that may be passed as --user.
UserNames == {"admin", "alice", "bob"}

-----------------------------------------------------------------------------
(* nautobot/tenancy/navigation.py *)

\* A Django permission string "<app>.<action>_<model>".
Perm(app, action, model) == [app |-> app, action |-> action, model |-> model]

PermString(p) == p.app \o "." \o p.action \o "_" \o p.model

NavMenuAddButton(link, permissions) ==
    [kind |-> "add", link |-> link, permissions |-> permissions]

NavMenuImportButton(link, permissions) ==
    [kind |-> "import", link |-> link, permissions |-> permissions]

NavMenuItem(link, name, weight, permissions, buttons) ==
    [link |-> link, name |-> name, weight |-> weight,
     permissions |-> permissions, buttons |-> buttons]

NavMenuGroup(name, weight, items) ==
    [name |-> name, weight |-> weight, items |-> items]

NavMenuTab(name, weight, groups) ==
    [name |-> name, weight |-> weight, groups |-> groups]

TenantsItemNoPerms ==
    NavMenuItem("tenancy:tenant_list", "Tenants", 100,
        << Perm("tenancy", "view", "tenant") >>,
        << NavMenuAddButton("tenancy:tenant_add", << >>),
           NavMenuImportButton("tenancy:tenant_import",
               << Perm("tenancy", "add", "tenant") >>) >>)

TenantsItem ==
    NavMenuItem("tenancy:tenant_list", "Tenants", 100,
        << Perm("tenancy", "view", "tenant") >>,
        << NavMenuAddButton("tenancy:tenant_add",
               << Perm("tenancy", "add", "tag") >>),
           NavMenuImportButton("tenancy:tenant_import",
               << Perm("tenancy", "add", "tenant") >>) >>)

TenantGroupsItem ==
    NavMenuItem("tenancy:tenantgroup_list", "Tenant Groups", 200,
        << Perm("tenancy", "view", "tenantgroup") >>,
        << NavMenuAddButton("tenancy:tenantgroup_add",
               << Perm("tenancy", "add", "tenantgroup") >>),
           NavMenuImportButton("tenancy:tenantgroup_import",
               << Perm("tenancy", "add", "tenantgroup") >>) >>)

MenuItemsLiteral ==
    << NavMenuTab("Organization", 100,
         << NavMenuGroup("Tenancy", 300,
              << TenantsItem, TenantGroupsItem >>) >>) >>

-----------------------------------------------------------------------------
(* tasks.py: module level *)

PROJECT_NAME == "nautobot_dev"
COMPOSE_DIR == "development/"
COMPOSE_FILE == COMPOSE_DIR \o "docker-compose.yml"
OVERRIDE_FILENAME == "docker-compose.dev.yml"
COMPOSE_OVERRIDE_FILE == COMPOSE_DIR \o OVERRIDE_FILENAME

ComposeCommand(overrideIsFile) ==
    LET base == "docker-compose --project-name " \o PROJECT_NAME
                \o " --project-directory \"" \o COMPOSE_DIR
                \o "\" -f \"" \o COMPOSE_FILE \o "\""
    IN  IF overrideIsFile
        THEN base \o " -f \"" \o COMPOSE_OVERRIDE_FILE \o "\""
        ELSE base

\* Exceptions a task can end with.
NoExit == [kind |-> "none", message |-> "", code |-> 0]
Exit(message, code) == [kind |-> "Exit", message |-> message, code |-> code]
\* invoke's context.run raises UnexpectedExit when the process exits non-zero.
UnexpectedExit(code) == [kind |-> "UnexpectedExit", message |-> "", code |-> code]

\* Entries of the log of external calls; `raised` names the exception the
\* call ended with ("" when it returned).
RunCall(command, pty, rc, raised) ==
    [call |-> "run", arg |-> command, pty |-> pty, result |-> rc,
     raised |-> raised]
GetCall(url, status, raised) ==
    [call |-> "get", arg |-> url, pty |-> FALSE, result |-> status,
     raised |-> raised]
SleepCall(seconds) ==
    [call |-> "sleep", arg |-> "", pty |-> FALSE, result |-> seconds,
     raised |-> ""]

\* docker_compose(context, command, **kwargs): the command line handed to context.run
docker_compose(cc, command) == cc \o " " \o command

RunRaisesNever(rc) == FALSE

\* context.run with the default warn=False raises on a non-zero exit status.
RunRaises(rc) == rc # 0

\* The effect of one docker_compose(...) call made at position pc: the process
\* exits with some status rc; a non-zero status ends the task with
\* UnexpectedExit, a zero status moves on to `next`.
ComposeStep(command, pty, next) ==
    \E rc \in 0..MaxExitCode :
        /\ log' = Append(log, RunCall(docker_compose(compose_command, command), pty, rc,
                                      IF RunRaises(rc) THEN "UnexpectedExit" ELSE ""))
        /\ IF RunRaises(rc)
           THEN /\ exit' = UnexpectedExit(rc)
                /\ pc' = "done"
           ELSE /\ exit' = exit
                /\ pc' = next

-----------------------------------------------------------------------------
(* tasks.py: command lines of the tasks *)

start_command == "up --detach"

\* The literal is not an f-string: "{user}" is passed through unformatted.
createsuperuser_command(u) ==
    "run nautobot nautobot-server createsuperuser --username {user}"

black_command(autoformat) ==
    (IF autoformat THEN "black" ELSE "black --check --diff")
        \o " development/ nautobot/ tasks.py"

flake8_command == "flake8 development/ nautobot/ tasks.py"

hadolint_command == "hadolint docker/Dockerfile"

entrypoint(command) == "run --entrypoint '" \o command \o "' nautobot"

unittest_command(keepdb, label) ==
    "run --entrypoint 'coverage run -m nautobot.core.cli test " \o label
        \o " --failfast" \o (IF keepdb THEN " --keepdb" ELSE "") \o "' nautobot"

-----------------------------------------------------------------------------
(* tasks.py: integration_tests *)

max_retries == 60
SleepSeconds == 5
ProbeUrl == "http://localhost:8080"
TimeoutMessage == "Timed Out waiting for Nautobot"

InvalidStatusMessage(status_code) ==
    "Nautobot returned and invalid status " \o ToString(status_code)

InvalidStatusExitOne(status_code) ==
    Exit(InvalidStatusMessage(status_code), 1)

\* raise Exit(f"Nautobot returned and invalid status {code}", code)
InvalidStatusExit(status_code) ==
    Exit(InvalidStatusMessage(status_code), status_code)

TimeoutExit == Exit(TimeoutMessage, 1)

RetriesUnchanged(r) == r

\* retries += 1
NextRetries(r) == r + 1

\* while retries < max_retries
WhileCondition(r) == r < max_retries

TimedOutEarly(r) == r >= max_retries - 1

\* if retries >= max_retries
TimedOut(r) == r >= max_retries

SleepDelayBackoff(r) == SleepSeconds * r

\* sleep(5): the delay does not depend on the number of retries
SleepDelay(r) == SleepSeconds

AfterReadyContinue == "it_while"

\* `break` on status 200 leaves the loop for the check after it
AfterReady == "it_after"

\* Number of session.get calls made so far.
Probes(l) == Cardinality({i \in 1..Len(l) : l[i].call = "get"})

\* What the endpoint does on the n-th probe (n = 1, 2, ...): it refuses the
\* connection for the first server.down probes and answers server.status
\* from then on.
ProbeRefused(n) == n <= server.down

\* start(context)
Start ==
    /\ pc = "it_start"
    /\ ComposeStep(start_command, FALSE, "it_while")
    /\ UNCHANGED <<task, user, compose_command, retries, request, menu_items, server>>

\* while retries < max_retries:
While ==
    /\ pc = "it_while"
    /\ pc' = IF WhileCondition(retries) THEN "it_get" ELSE "it_after"
    /\ UNCHANGED <<task, user, compose_command, retries, request, exit, log,
                   menu_items, server>>

\* try: request = session.get(...)   except ConnectionError: ...
Get ==
    /\ pc = "it_get"
    /\ LET n == Probes(log) + 1 IN
       IF ProbeRefused(n)
       THEN /\ log' = Append(log, GetCall(ProbeUrl, 0, "ConnectionError"))
            /\ request' = request
            /\ pc' = "it_except"
       ELSE /\ log' = Append(log, GetCall(ProbeUrl, server.status, ""))
            /\ request' = server.status
            /\ pc' = "it_check"
    /\ UNCHANGED <<task, user, compose_command, retries, exit, menu_items, server>>

\* print(...); sleep(5); retries += 1; continue
Sleep ==
    /\ pc = "it_except"
    /\ log' = Append(log, SleepCall(SleepDelay(retries)))
    /\ retries' = NextRetries(retries)
    /\ pc' = "it_while"
    /\ UNCHANGED <<task, user, compose_command, request, exit, menu_items, server>>

\* if request.status_code == 200: break   else: raise Exit(...)
Check ==
    /\ pc = "it_check"
    /\ IF request = 200
       THEN /\ pc' = AfterReady
            /\ exit' = exit
       ELSE /\ pc' = "done"
            /\ exit' = InvalidStatusExit(request)
    /\ UNCHANGED <<task, user, compose_command, retries, request, log,
                   menu_items, server>>

\* if retries >= max_retries: raise Exit("Timed Out waiting for Nautobot", 1)
AfterLoop ==
    /\ pc = "it_after"
    /\ exit' = IF TimedOut(retries) THEN TimeoutExit ELSE exit
    /\ pc' = "done"
    /\ UNCHANGED <<task, user, compose_command, retries, request, log,
                   menu_items, server>>

integration_tests == Start \/ While \/ Get \/ Sleep \/ Check \/ AfterLoop

-----------------------------------------------------------------------------
(* tasks.py: tests and the tasks it calls *)

\* black(context): autoformat=False, local=False
Black ==
    /\ pc = "t_black"
    /\ ComposeStep(entrypoint(black_command(FALSE)), TRUE, "t_flake8")
    /\ UNCHANGED <<task, user, compose_command, retries, request, menu_items, server>>

\* flake8(context): local=False
Flake8 ==
    /\ pc = "t_flake8"
    /\ ComposeStep(entrypoint(flake8_command), TRUE, "t_hadolint")
    /\ UNCHANGED <<task, user, compose_command, retries, request, menu_items, server>>

\* hadolint(context): local=False
Hadolint ==
    /\ pc = "t_hadolint"
    /\ ComposeStep(entrypoint(hadolint_command), TRUE, "t_unittest")
    /\ UNCHANGED <<task, user, compose_command, retries, request, menu_items, server>>

\* unittest(context): keepdb=False, label="nautobot"
Unittest ==
    /\ pc = "t_unittest"
    /\ ComposeStep(unittest_command(FALSE, "nautobot"), TRUE, "done")
    /\ UNCHANGED <<task, user, compose_command, retries, request, menu_items, server>>

tests == Black \/ Flake8 \/ Hadolint \/ Unittest

-----------------------------------------------------------------------------
(* tasks.py: createsuperuser *)

createsuperuser ==
    /\ pc = "createsuperuser"
    /\ ComposeStep(createsuperuser_command(user), TRUE, "done")
    /\ UNCHANGED <<task, user, compose_command, retries, request, menu_items, server>>

-----------------------------------------------------------------------------
(* Dispatch of one task by the runner *)

DispatchIntegrationTests ==
    /\ pc = "idle"
    /\ task' = "integration_tests"
    /\ retries' = 1
    /\ pc' = "it_start"
    /\ UNCHANGED <<user, compose_command, request, exit, log, menu_items, server>>

DispatchTests ==
    /\ pc = "idle"
    /\ task' = "tests"
    /\ pc' = "t_black"
    /\ UNCHANGED <<user, compose_command, retries, request, exit, log,
                   menu_items, server>>

\* `invoke createsuperuser` (user defaults to "admin") or
\* `invoke createsuperuser --user NAME`
DispatchCreatesuperuser ==
    /\ pc = "idle"
    /\ \E given \in BOOLEAN, name \in UserNames :
           user' = IF given THEN name ELSE "admin"
    /\ task' = "createsuperuser"
    /\ pc' = "createsuperuser"
    /\ UNCHANGED <<compose_command, retries, request, exit, log, menu_items, server>>

Dispatch == DispatchIntegrationTests \/ DispatchTests \/ DispatchCreatesuperuser

-----------------------------------------------------------------------------

Init ==
    /\ pc = "idle"
    /\ task = ""
    /\ user = ""
    /\ \E overrideIsFile \in BOOLEAN : compose_command = ComposeCommand(overrideIsFile)
    /\ retries = 0
    /\ request = 0
    /\ exit = NoExit
    /\ log = << >>
    /\ menu_items = MenuItemsLiteral
    /\ server \in [down : 0..MaxDown, status : StatusCodes]

Next == Dispatch \/ integration_tests \/ tests \/ createsuperuser

Spec == Init /\ [][Next]_vars

\* The interpreter keeps executing the dispatched task: every call it makes
\* returns (session.get has a timeout, sleep(5) returns after five seconds).
FairSpec == Spec /\ WF_vars(integration_tests)

-----------------------------------------------------------------------------
(* Properties *)

GetIdx == {i \in 1..Len(log) : log[i].call = "get"}
SleepIdx == {i \in 1..Len(log) : log[i].call = "sleep"}
Refused(i) == log[i].call = "get" /\ log[i].raised = "ConnectionError"
Answered(i) == log[i].call = "get" /\ log[i].raised = ""
Finished(t) == task = t /\ pc = "done"

\* C1: with max_retries = 60, when the endpoint refuses the connection on the
\* first 59 probes and would answer 200 on the 60th, integration_tests ends
\* without raising.
C1_SuccessOnLastAttempt ==
    ( /\ Finished("integration_tests")
      /\ Len(log) > 0 /\ log[1].raised = ""
      /\ server.down = max_retries - 1
      /\ server.status = 200 )
    => exit = NoExit

\* C2: when every probe made ended in a connection error, integration_tests
\* ends with Exit("Timed Out waiting for Nautobot", 1); and that Exit is raised
\* only in runs in which no probe returned 200.
C2_TimeoutExit ==
    /\ ( /\ Finished("integration_tests")
         /\ GetIdx # {}
         /\ \A i \in GetIdx : Refused(i) )
       => ( /\ exit.kind = "Exit"
            /\ exit.message = "Timed Out waiting for Nautobot"
            /\ exit.code = 1 )
    /\ ( exit.kind = "Exit" /\ exit.message = "Timed Out waiting for Nautobot" )
       => \A i \in GetIdx : ~(Answered(i) /\ log[i].result = 200)

C2_Witness ==
    /\ Finished("integration_tests")
    /\ exit = Exit("Timed Out waiting for Nautobot", 1)
    /\ GetIdx # {}
    /\ \A i \in GetIdx : Refused(i)

\* C3: a probe answered with a status other than 200 is the last external call
\* of the run (no probe, no sleep after it), and the task ends with an Exit
\* carrying the invalid-status message and that status as its code, however
\* many connection errors came before.
C3_InvalidStatusAborts ==
    \A i \in GetIdx :
        (Answered(i) /\ log[i].result # 200) =>
            /\ i = Len(log)
            /\ pc \in {"it_check", "done"}
            /\ pc = "done" =>
                  /\ exit.kind = "Exit"
                  /\ exit.message = InvalidStatusMessage(log[i].result)
                  /\ exit.message # "Timed Out waiting for Nautobot"
                  /\ exit.code = log[i].result

C3_Witness ==
    /\ Finished("integration_tests")
    /\ Cardinality(GetIdx) > 1
    /\ Answered(Len(log))
    /\ log[Len(log)].result = 404
    /\ exit.code = 404

\* C4: a probe answered with 200 is the last external call of the run (no
\* probe, no sleep after it) and the task ends without raising, however many
\* connection errors came before.
C4_FirstOkSucceeds ==
    \A i \in GetIdx :
        (Answered(i) /\ log[i].result = 200) =>
            /\ i = Len(log)
            /\ pc \in {"it_check", "it_after", "done"}
            /\ pc = "done" => exit = NoExit

C4_Witness ==
    /\ Finished("integration_tests")
    /\ Cardinality(GetIdx) > 1
    /\ Answered(Len(log))
    /\ log[Len(log)].result = 200
    /\ exit = NoExit

\* C5: a run of integration_tests never makes more than max_retries probes,
\* and once dispatched it always reaches its end.
C5_BoundedAndTerminates ==
    /\ [](Cardinality(GetIdx) <= max_retries)
    /\ (task = "integration_tests") ~> (pc = "done")

C5_Witness ==
    /\ Finished("integration_tests")
    /\ Cardinality(GetIdx) = max_retries - 1

\* C6: createsuperuser runs 'nautobot-server createsuperuser' with --username
\* set to the value of its user parameter ("admin" unless --user is given).
C6_UsernameIsUser ==
    (task = "createsuperuser" /\ Len(log) > 0) =>
        log[1].arg = docker_compose(compose_command,
            "run nautobot nautobot-server createsuperuser --username " \o user)

\* C7: tests runs black, flake8, hadolint and unittest in that order, each at
\* most once; a step that exits non-zero is the last one run and fails the
\* task; the task succeeds only when all four exited zero.
C7_TestsPassThrough ==
    task = "tests" =>
        LET order == << entrypoint(black_command(FALSE)),
                        entrypoint(flake8_command),
                        entrypoint(hadolint_command),
                        unittest_command(FALSE, "nautobot") >>
        IN  /\ Len(log) <= 4
            /\ \A i \in 1..Len(log) :
                  /\ log[i].call = "run"
                  /\ log[i].arg = docker_compose(compose_command, order[i])
                  /\ log[i].result # 0 =>
                        /\ i = Len(log)
                        /\ pc = "done"
                        /\ exit.kind = "UnexpectedExit"
            /\ (pc = "done" /\ exit = NoExit) =>
                  /\ Len(log) = 4
                  /\ \A i \in 1..4 : log[i].result = 0

C7_Witness ==
    /\ Finished("tests")
    /\ Len(log) = 2
    /\ log[2].result # 0
    /\ exit.kind = "UnexpectedExit"

Range(seq) == {seq[i] : i \in 1..Len(seq)}

ItemsOf(m) ==
    UNION {UNION {Range(grp.items) : grp \in Range(tab.groups)} : tab \in Range(m)}

ButtonsOf(item) == Range(item.buttons)

\* C8: every item and every button of the Tenancy navigation tree has a
\* non-empty permission list, and the tree is never changed after import.
C8_PermissionsNonEmptyAndFrozen ==
    /\ [](\A item \in ItemsOf(menu_items) :
             /\ Len(item.permissions) > 0
             /\ \A b \in ButtonsOf(item) : Len(b.permissions) > 0)
    /\ [][menu_items' = menu_items]_vars

C8_Witness ==
    /\ pc = "done"
    /\ Cardinality(ItemsOf(menu_items)) = 2
    /\ \A item \in ItemsOf(menu_items) : Cardinality(ButtonsOf(item)) = 2

\* Every sleep lasts SleepSeconds, directly follows a refused probe, and every
\* refused probe is directly followed by exactly one sleep.
SleepsAfterRefusals ==
    /\ \A i \in SleepIdx :
          /\ log[i].result = 5
          /\ i > 1 /\ Refused(i - 1)
    /\ \A i \in GetIdx : Refused(i) =>
          IF i = Len(log) THEN pc = "it_except" ELSE log[i + 1].call = "sleep"

C10_ButtonsAddSameModel ==
    \A item \in ItemsOf(menu_items) :
        \A v \in 1..Len(item.permissions) :
            item.permissions[v].action = "view" =>
                \A b \in ButtonsOf(item) :
                    \A k \in 1..Len(b.permissions) :
                        PermString(b.permissions[k]) =
                            item.permissions[v].app \o ".add_"
                                \o item.permissions[v].model

====
